---------------------------- MODULE Spec2Model ----------------------------
(***************************************************************************)
(* The failover dispatch of the multi-backend chat proxy (src/index.ts).   *)
(*                                                                         *)
(* src/index.ts holds four revisions of the server, one after the other:   *)
(*   "placeholder"  lines   1-238  (usage arithmetic, apology on failure)  *)
(*   "cursor"       lines 240-466  (shared currentServiceIndex on /chat)   *)
(*   "plain"        lines 468-708  (success flag, usage zeros)             *)
(*   "tools"        lines 710-933  (deltas with tool calls, 503 on failure)*)
(* A process runs one of them; Init chooses which, and the environment.    *)
(*                                                                         *)
(* Text is a sequence of tokens.  A content fragment produced by a backend *)
(* is the one-token text <<name of the backend>>, so that the origin of    *)
(* every piece of a response stays visible; the empty string is <<>>.      *)
(***************************************************************************)
EXTENDS Integers, Sequences, FiniteSets, TLC

VARIABLES
  variant,              \* the revision of index.ts the process runs
  env,                  \* process.env: which variables are set
  currentServiceIndex,  \* the shared rotation cursor of the cursor revision
  pc,                   \* where the request handler is suspended
  req,                  \* the request being handled
  rawMessages,          \* the messages of its body, as received
  messages,             \* the conversation the handler passes to chat()
  rawTools,             \* the tools of its body, as received
  tools,                \* the tools the handler passes to chat()
  attempts,             \* rotation attempts made so far for this request
  service,              \* the backend whose chat() / stream is awaited
  fullText,             \* aggregated text of the non-streaming branch
  toolCallMap,          \* reassembled tool calls, in insertion order
  fragments,            \* history: the fragments toolCallMap was built from
  success,              \* the handler's success flag
  usedService,          \* the handler's usedService
  written,              \* what stream.write has sent, in order
  response,             \* the HTTP response (status and body)
  log,                  \* history: every chat() invocation and how it went
  budget,               \* deltas the backends may still produce
  tasks,                \* the /chat handlers running side by side
  clients,              \* the providers' client objects constructed so far
  headers               \* the credentials of a request, as its headers

vars == <<variant, env, currentServiceIndex, pc, req, rawMessages, messages,
          rawTools, tools, attempts, service,
          fullText, toolCallMap, fragments, success, usedService, written,
          response, log, budget, tasks, clients, headers>>

----------------------------------------------------------------------------
(* Bounds *)

\* deltas all backends together produce for one request
MaxDeltas == 2
\* messages left in a conversation after normalization
MaxMessages == 1
\* tool-call fragments of one stream, where reassembly is studied by itself
MaxFragments == 3
\* messages of a body, where normalization is studied by itself
MaxRawMessages == 2
\* entries of a body's tools array, where normalizeTools is studied by itself
MaxTools == 2
\* /chat requests handled side by side
MaxTasks == 2

----------------------------------------------------------------------------
(* Values *)

Null == "null"
Variants == {"placeholder", "cursor", "plain", "tools"}
Routes == {"completions", "responses", "chat"}

Groq == "Groq"
Cerebras == "Cerebras"
Gemini == "Gemini"
OpenRouter == "OpenRouter (Last Resort)"

\* the backends that keep a client object of their provider's SDK in a
\* module variable (OpenRouter calls fetch), and the number of objects each
\* has constructed when the process starts
Providers == {Groq, Cerebras, Gemini}
NoClients == [p \in Providers |-> 0]

\* the value of AUTH_SECRET when it is set, and some other key
Secret == "s"
Wrong == "w"
Bearer == "Bearer "

EnvNames == {"GROQ_API_KEY", "CEREBRAS_API_KEY", "GEMINI_API_KEY",
             "OPENROUTER_API_KEY", "AUTH_SECRET"}

\* absent header, absent field: undefined and "" behave alike in every test
\* the code makes (truthiness, !== against a non-empty secret)
NoText == <<>>
NoIndex == -1

\* "Lo siento, todos los servicios de IA estan ocupados. Intenta de nuevo en
\* unos segundos.": one token, with its String.length
Apology == "Lo siento, todos los servicios de IA estan ocupados."
ApologyLen == 87

\* String.length of a text: a backend's fragment token stands for one character
RECURSIVE TextLen(_)
TextLen(t) ==
  IF t = <<>> THEN 0
  ELSE (IF Head(t) = Apology THEN ApologyLen ELSE 1) + TextLen(Tail(t))

\* Math.ceil(n / 4) for n >= 0
Ceil4(n) == (n + 3) \div 4

Max(a, b) == IF a >= b THEN a ELSE b

----------------------------------------------------------------------------
(* Process start-up *)

availableServices_GeminiFirst ==
  (IF env.GEMINI_API_KEY THEN <<Gemini>> ELSE <<>>)
  \o (IF env.GROQ_API_KEY THEN <<Groq>> ELSE <<>>)
  \o (IF env.CEREBRAS_API_KEY THEN <<Cerebras>> ELSE <<>>)

availableServices ==
  (IF env.GROQ_API_KEY THEN <<Groq>> ELSE <<>>)
  \o (IF env.CEREBRAS_API_KEY THEN <<Cerebras>> ELSE <<>>)
  \o (IF env.GEMINI_API_KEY THEN <<Gemini>> ELSE <<>>)

rotationServices ==
  IF Len(availableServices) > 0 THEN availableServices ELSE <<Groq>>

lastResortService == IF env.OPENROUTER_API_KEY THEN OpenRouter ELSE Null

N == Len(rotationServices)

----------------------------------------------------------------------------
(* Authentication *)

\* String.prototype.replace(tok, ''): the first occurrence of tok is removed
RECURSIVE RemoveFirst(_, _)
RemoveFirst(s, tok) ==
  IF s = <<>> THEN <<>>
  ELSE IF Head(s) = tok THEN Tail(s)
  ELSE <<Head(s)>> \o RemoveFirst(Tail(s), tok)

\* process.env.AUTH_SECRET ("" when unset)
authSecret == IF env.AUTH_SECRET THEN <<Secret>> ELSE NoText

\* the /v1 middleware's apiKey:
\*   authHeader ? authHeader.replace('Bearer ', '') : c.req.header('x-api-key')
ApiKey(authHeader, xApiKey) ==
  IF authHeader # NoText THEN RemoveFirst(authHeader, Bearer) ELSE xApiKey

\* the /v1/* middleware lets the request through
V1AuthPasses(authHeader, xApiKey) ==
  authSecret = NoText \/ ApiKey(authHeader, xApiKey) = authSecret

\* the error of the middleware's 401 body
V1AuthError ==
  IF variant \in {"placeholder", "plain"} THEN "Invalid API Key"
  ELSE "Unauthorized"

\* the x-api-key check of /chat lets the request through
ChatAuthPasses(xApiKey) ==
  authSecret = NoText \/ xApiKey = authSecret

\* the credential a request presents to its route; no code reads the headers
\* when AUTH_SECRET is unset
Presented(route, authHeader, xApiKey) ==
  IF authSecret = NoText THEN NoText
  ELSE IF route = "chat" THEN xApiKey
  ELSE ApiKey(authHeader, xApiKey)

\* a request without credentials
NoHeaders == [authorization |-> NoText, xApiKey |-> NoText]

\* header values a request may carry
AuthHeaders == {NoText, <<Bearer, Secret>>, <<Bearer, Wrong>>, <<Secret>>}
ApiKeyHeaders == {NoText, <<Secret>>, <<Wrong>>}

----------------------------------------------------------------------------
(* Messages and their normalization.  The content of a message is a value  *)
(* of some JSON type; a string is a sequence of tokens, " " being a         *)
(* whitespace character.                                                    *)

Str(t) == [type |-> "string", text |-> t]
Undefined == [type |-> "undefined", text |-> <<>>]
\* an array of parts { type: 'text', text }: the texts of its parts
Parts(t) == [type |-> "array", text |-> t]
\* an object: its JSON text
Object(t) == [type |-> "object", text |-> t]

Msg(role, content, tcs, id, name) ==
  [role |-> role, content |-> content, tool_calls |-> tcs,
   tool_call_id |-> id, name |-> name]

\* String.prototype.trim() === ''
RECURSIVE IsBlank(_)
IsBlank(t) ==
  t = <<>> \/ (Head(t) = " " /\ IsBlank(Tail(t)))

\* Array.prototype.join(' ') of the texts of the parts
RECURSIVE Join(_)
Join(t) ==
  IF Len(t) <= 1 THEN t ELSE <<Head(t), " ">> \o Join(Tail(t))

\* JSON.stringify: a string gets its quotes, an array its brackets,
\* undefined stays undefined
JsonStringify(c) ==
  CASE c.type = "string" -> Str(<<"\"">> \o c.text \o <<"\"">>)
    [] c.type = "array" -> Str(<<"[">> \o c.text \o <<"]">>)
    [] c.type = "object" -> Str(c.text)
    [] OTHER -> Undefined

\* the value is truthy
Truthy(c) ==
  CASE c.type = "string" -> c.text # <<>>
    [] c.type = "undefined" -> FALSE
    [] OTHER -> TRUE

\* the role of the cleaned message: m.role || 'user', and in two of the
\* revisions chat and model become assistant
cleanRole(role) ==
  LET r == IF role = Null THEN "user" ELSE role
  IN IF variant # "plain" /\ r \in {"chat", "model"} THEN "assistant" ELSE r

\* the content of the cleaned message
cleanContent_Stringify(c) ==
  IF c.type = "array" /\ variant # "plain" THEN Str(Join(c.text))
  ELSE JsonStringify(c)

cleanContent(c) ==
  IF c.type = "string" THEN c
  ELSE IF c.type = "array" /\ variant # "plain" THEN Str(Join(c.text))
  ELSE IF variant = "placeholder"
  THEN JsonStringify(IF Truthy(c) THEN c ELSE Str(<<>>))
  ELSE IF variant = "plain" THEN JsonStringify(c)
  ELSE IF Truthy(c) THEN JsonStringify(c) ELSE Str(<<>>)

\* the callback of messages.map
cleanMessage(m) ==
  IF variant = "tools"
  THEN Msg(cleanRole(m.role), cleanContent(m.content), m.tool_calls,
           m.tool_call_id, m.name)
  ELSE Msg(cleanRole(m.role), cleanContent(m.content), Null, Null, Null)

\* the callback of .filter, on a cleaned message
keepsMessage(m) ==
  IF variant = "tools"
  THEN ~IsBlank(m.content.text) \/ m.tool_calls # Null
  ELSE Truthy(m.content) /\ ~IsBlank(m.content.text)

cleanMessages(msgs) ==
  SelectSeq([i \in 1..Len(msgs) |-> cleanMessage(msgs[i])], keepsMessage)

\* sequences of at most n elements of S
SeqsUpTo(S, n) == UNION {[1..k -> S] : k \in 0..n}

\* the roles a client may send (none, the canonical four, synonyms, another
\* spelling, another word)
RawRoles ==
  {Null, "user", "assistant", "system", "tool", "human", "ai", "model",
   "chat", "Model", "function"}

\* the contents a client may send
RawContents ==
  {Undefined, Str(<<>>), Str(<<" ">>), Str(<<"hola">>), Parts(<<>>),
   Parts(<<"hola", "hola">>), Object(<<"{}">>)}

\* the messages a client may send: every role with a text, and every
\* content with and without tool calls for a user, a renamed role and a
\* tool result (which carries tool_call_id and name)
RawMessagePool ==
  {Msg(r, Str(<<"hola">>), Null, Null, Null) : r \in RawRoles}
  \cup {Msg(r, c, tcs, IF r = "tool" THEN "call_a" ELSE Null,
             IF r = "tool" THEN "get_weather" ELSE Null) :
          r \in {"user", "chat", "tool"}, c \in RawContents,
          tcs \in {Null, "calls"}}

\* the bodies of the requests the handlers are studied under: a message
\* with a text, a message that is blank
BodyMessages ==
  SeqsUpTo({Msg("user", Str(<<"hola">>), Null, Null, Null),
            Msg("user", Str(<<" ">>), Null, Null, Null)}, MaxMessages)

----------------------------------------------------------------------------
(* Tools of a request body. An entry is an object that may carry a type, *)
(* flat name/description/parameters/arguments fields (the Responses API  *)
(* form) and a nested function object (the Chat Completions form). A     *)
(* field that is absent is Null; '' is the empty string.                 *)

NoFunction ==
  [present |-> FALSE, name |-> Null, description |-> Null,
   parameters |-> Null]

Function(name, description, parameters) ==
  [present |-> TRUE, name |-> name, description |-> description,
   parameters |-> parameters]

Tool(type, name, description, parameters, arguments, function) ==
  [type |-> type, name |-> name, description |-> description,
   parameters |-> parameters, arguments |-> arguments,
   function |-> function]

\* a JavaScript value that is absent or the empty string is falsy
Falsy(v) == v = Null \/ v = ""

\* a || b
Or(a, b) == IF Falsy(a) THEN b ELSE a

\* t.function?.name
FunctionName(t) == IF t.function.present THEN t.function.name ELSE Null

\* the callback of tools.map
normalizeTool(t) ==
  IF t.type = "function" /\ ~Falsy(FunctionName(t)) THEN t
  ELSE IF ~Falsy(t.name) /\ (~Falsy(t.parameters) \/ ~Falsy(t.arguments))
  THEN Tool("function", Null, Null, Null, Null,
            Function(t.name, Or(t.description, ""),
                     Or(t.parameters, t.arguments)))
  ELSE t

\* the callback of .filter
keepsTool(t) == ~Falsy(FunctionName(t))

\* body.tools that is absent or not an array, and the undefined result
NoTools == [isArray |-> FALSE, items |-> <<>>]

ToolsArray(items) == [isArray |-> TRUE, items |-> items]

normalizeTools_EmptyArray(ts) ==
  IF ~ts.isArray THEN NoTools
  ELSE ToolsArray(SelectSeq([i \in 1..Len(ts.items) |->
                               normalizeTool(ts.items[i])], keepsTool))

normalizeTools(ts) ==
  IF ~ts.isArray \/ Len(ts.items) = 0 THEN NoTools
  ELSE ToolsArray(SelectSeq([i \in 1..Len(ts.items) |->
                               normalizeTool(ts.items[i])], keepsTool))

\* the nested function objects a body's tool may carry: none, one without
\* a name, a complete one
RawFunctions ==
  { NoFunction,
    Function(Null, Null, "schema_f"),
    Function("lookup", "finds", "schema_f") }

\* the flat parameters and arguments a body's tool may carry
RawSchemas ==
  { [parameters |-> Null, arguments |-> Null],
    [parameters |-> "schema_p", arguments |-> Null],
    [parameters |-> Null, arguments |-> "schema_a"] }

RawToolPool ==
  { Tool(type, name, description, sch.parameters, sch.arguments, f) :
      type \in {Null, "function"}, name \in {Null, "search"},
      description \in {Null, "searches"}, sch \in RawSchemas,
      f \in RawFunctions }

\* any tools a body may carry, where normalizeTools is studied by itself
RawTools ==
  {NoTools} \cup {ToolsArray(ts) : ts \in SeqsUpTo(RawToolPool, MaxTools)}

\* the tools of a dispatched request: none, or one in canonical form
BodyTools ==
  { NoTools,
    ToolsArray(<<Tool("function", Null, Null, Null, Null,
                      Function("lookup", "finds", "schema_f"))>>) }

----------------------------------------------------------------------------
(* Handlers of the four revisions *)

\* the handler passes normalizeTools(body.tools) to the backends
NormalizesTools(r) == variant = "tools" /\ r.route # "chat"

\* the request takes the streaming branch (POST /chat always streams)
Streaming(r) == r.route = "chat" \/ r.stream

\* the /chat handler that rotates with the shared cursor
CursorChat(r) == variant = "cursor" /\ r.route = "chat"

\* c.req.path.includes('/responses'), read by the tools revision only
isResponsesApi(r) == variant = "tools" /\ r.route = "responses"

\* the route has a handler in the revision (the cursor revision registers
\* neither /v1/responses nor /v1/models)
Registered(r) == ~(variant = "cursor" /\ r.route = "responses")

\* the /v1/* middleware runs before the handler of the route: in the cursor
\* revision POST /v1/chat/completions is registered first and answers without
\* calling next(), so the middleware registered after it never runs
V1MiddlewareRuns(r) ==
  r.route # "chat" /\ ~(variant = "cursor" /\ r.route = "completions")

\* the handler calls cleanMessages and answers an empty conversation itself
ChecksEmpty(r) == variant # "cursor" /\ r.route # "chat"

\* the handler passes cleanMessages(...) to the backends
Cleans(r) == ChecksEmpty(r) \/ (variant = "tools" /\ r.route = "chat")

\* the body is parsed inside try/catch
GuardedParse(r) == variant # "cursor" /\ r.route # "chat"

\* the handler goes on to lastResortService after the rotation
UsesLastResort == variant # "tools"

----------------------------------------------------------------------------
(* Deltas and tool-call reassembly *)

RandomId == "call_random"

\* the fragment of a tool call a backend may stream: its strings are tokens
\* naming the backend
Fragments(svc) ==
  { [index |-> NoIndex, id |-> Null, name |-> <<svc>>, arguments |-> <<svc>>] }

\* what one element of a backend's stream may be: a string chunk in the
\* first three revisions, a delta object in the tools revision
Deltas(svc) ==
  IF variant = "tools"
  THEN [content : {NoText, <<svc>>},
        tool_calls : {<<>>} \cup {<<f>> : f \in Fragments(svc)}]
  ELSE [content : {NoText, <<svc>>}, tool_calls : {<<>>}]

\* one fragment applied to toolCallMap (a Map keeps insertion order)
SetToolCall_Prepend(map, tc) ==
  LET idx == IF tc.index = NoIndex THEN 0 ELSE tc.index
      has == \E i \in 1..Len(map) : map[i].index = idx
      m1 == IF has THEN map
            ELSE Append(map, [index |-> idx,
                              id |-> IF tc.id # Null THEN tc.id ELSE RandomId,
                              name |-> <<>>, arguments |-> <<>>])
      i == CHOOSE j \in 1..Len(m1) : m1[j].index = idx
  IN [m1 EXCEPT ![i] = [@ EXCEPT !.id = IF tc.id # Null THEN tc.id ELSE @,
                                 !.name = tc.name \o @,
                                 !.arguments = tc.arguments \o @]]

SetToolCall(map, tc) ==
  LET idx == IF tc.index = NoIndex THEN 0 ELSE tc.index
      has == \E i \in 1..Len(map) : map[i].index = idx
      m1 == IF has THEN map
            ELSE Append(map, [index |-> idx,
                              id |-> IF tc.id # Null THEN tc.id ELSE RandomId,
                              name |-> <<>>, arguments |-> <<>>])
      i == CHOOSE j \in 1..Len(m1) : m1[j].index = idx
  IN [m1 EXCEPT ![i] = [@ EXCEPT !.id = IF tc.id # Null THEN tc.id ELSE @,
                                 !.name = @ \o tc.name,
                                 !.arguments = @ \o tc.arguments]]

\* for (const tc of delta.tool_calls) ...
RECURSIVE Reassemble(_, _)
Reassemble(map, tcs) ==
  IF tcs = <<>> THEN map
  ELSE Reassemble(SetToolCall(map, Head(tcs)), Tail(tcs))

\* Array.from(toolCallMap.values()) without the Map's keys
toolCalls(map) ==
  [i \in 1..Len(map) |-> [id |-> map[i].id, type |-> "function",
                          function |-> [name |-> map[i].name,
                                        arguments |-> map[i].arguments]]]

----------------------------------------------------------------------------
(* Wire shapes *)

Usage(p, c, t) ==
  [fields |-> {"prompt_tokens", "completion_tokens", "total_tokens"},
   prompt_tokens |-> p, completion_tokens |-> c, total_tokens |-> t]

\* usage: { total_tokens: 0 }
UsageTotalOnly ==
  [fields |-> {"total_tokens"},
   prompt_tokens |-> 0, completion_tokens |-> 0, total_tokens |-> 0]

NoUsage ==
  [fields |-> {}, prompt_tokens |-> 0, completion_tokens |-> 0,
   total_tokens |-> 0]

\* an HTTP response: status, and the fields of its JSON body that the
\* handlers set (Null, NoText, <<>>, NoUsage: not in the body); no handler
\* puts a required_action in a body
Resp(status, object, content, tcs, finish, state, output, usage, error) ==
  [status |-> status, object |-> object, content |-> content,
   tool_calls |-> tcs, finish_reason |-> finish, state |-> state,
   output |-> output, required_action |-> Null, usage |-> usage,
   error |-> error]

NoResponse == Resp(0, Null, NoText, <<>>, Null, Null, <<>>, NoUsage, Null)

\* the response streamText returns; its body is what stream.write sends
StreamResponse ==
  Resp(200, "stream", NoText, <<>>, Null, Null, <<>>, NoUsage, Null)

ErrorResponse(status, error) ==
  Resp(status, Null, NoText, <<>>, Null, Null, <<>>, NoUsage, error)

\* an exception left the handler: the framework answers 500
Uncaught(origin) == ErrorResponse(500, origin)

\* one stream.write
Frame(kind, object, from, content, tcs) ==
  [kind |-> kind, object |-> object, from |-> from, content |-> content,
   tool_calls |-> tcs]

\* the frame written for one element of the backend's stream
ChunkFrame(r, svc, d) ==
  IF r.route = "chat" THEN Frame("raw", Null, svc, d.content, <<>>)
  ELSE IF variant = "cursor"
  THEN Frame("chunk", Null, svc, d.content, <<>>)
  ELSE IF isResponsesApi(r)
  THEN Frame("chunk", "response.chunk", svc, d.content, d.tool_calls)
  ELSE Frame("chunk", "chat.completion.chunk", svc, d.content, d.tool_calls)

StopFrame == Frame("stop", "chat.completion.chunk", Null, NoText, <<>>)
DoneFrame == Frame("done", Null, Null, NoText, <<>>)
ErrorFrame == Frame("error", Null, Null, NoText, <<>>)

\* what the streaming branch writes for one element
WriteDelta(r, svc, d, wr) ==
  IF r.route = "chat" /\ variant = "tools" /\ d.content = NoText
  THEN wr
  ELSE Append(wr, ChunkFrame(r, svc, d))

\* what the streaming branch writes after its loops
WriteEnd_DoneFirst(r, succ, wr) ==
  IF r.route = "chat"
  THEN IF succ \/ variant = "tools" THEN wr ELSE Append(wr, ErrorFrame)
  ELSE IF variant \in {"placeholder", "plain"}
  THEN wr \o <<DoneFrame, StopFrame>>
  ELSE IF variant = "cursor" THEN Append(wr, DoneFrame)
  ELSE IF succ THEN Append(wr, DoneFrame) ELSE wr

WriteEnd(r, succ, wr) ==
  IF r.route = "chat"
  THEN IF succ \/ variant = "tools" THEN wr ELSE Append(wr, ErrorFrame)
  ELSE IF variant \in {"placeholder", "plain"}
  THEN wr \o <<StopFrame, DoneFrame>>
  ELSE IF variant = "cursor" THEN Append(wr, DoneFrame)
  ELSE IF succ THEN Append(wr, DoneFrame) ELSE wr

\* the answer to a conversation that is empty after cleanMessages
EmptyConversation(r) ==
  CASE variant = "placeholder" ->
         Resp(200, "chat.completion", <<"Conexion activa. Por favor envia un mensaje.">>,
              <<>>, "stop", Null, <<>>, Usage(1, 1, 2), Null)
    [] variant = "plain" ->
         Resp(200, "chat.completion", <<"Conexion exitosa. Esperando mensajes...">>,
              <<>>, "stop", Null, <<>>, NoUsage, Null)
    [] isResponsesApi(r) ->
         Resp(200, "response", NoText, <<>>, Null, "completed",
              <<[type |-> "message", role |-> Null,
                 content |-> <<[type |-> "text", text |-> <<"Esperando mensaje.">>]>>,
                 tool_calls |-> <<>>]>>,
              NoUsage, Null)
    [] OTHER ->
         Resp(200, "chat.completion", <<"Conexion activa.">>, <<>>, Null, Null,
              <<>>, UsageTotalOnly, Null)

\* the JSON body of the non-streaming branch
Compose(r, succ, ft, tcm) ==
  CASE variant = "placeholder" ->
         LET text == IF ft = NoText THEN <<Apology>> ELSE ft
             promptTokens == Max(1, r.nMessages * 10)
             completionTokens == Ceil4(TextLen(text))
         IN Resp(200, "chat.completion", text, <<>>, "stop", Null, <<>>,
                 Usage(promptTokens, completionTokens,
                       promptTokens + completionTokens), Null)
    [] variant = "cursor" ->
         Resp(200, Null, ft, <<>>, Null, Null, <<>>, NoUsage, Null)
    [] variant = "plain" ->
         Resp(200, "chat.completion", ft, <<>>, "stop", Null, <<>>,
              Usage(0, 0, 0), Null)
    [] OTHER ->
         IF ~succ
         THEN ErrorResponse(503, "No se pudo obtener respuesta de ninguna IA.")
         ELSE IF isResponsesApi(r)
         THEN Resp(200, "response", NoText, <<>>, Null,
                   IF tcm # <<>> THEN "requires_action" ELSE "completed",
                   <<[type |-> "message", role |-> "assistant",
                      content |-> IF ft # NoText
                                  THEN <<[type |-> "text", text |-> ft]>>
                                  ELSE <<>>,
                      tool_calls |-> toolCalls(tcm)]>>,
                   Usage(r.nMessages * 10, 50, 100), Null)
         ELSE Resp(200, "chat.completion", ft, toolCalls(tcm),
                   IF tcm # <<>> THEN "tool_calls" ELSE "stop", Null, <<>>,
                   Usage(r.nMessages * 10, 50, 100), Null)

----------------------------------------------------------------------------
(* The dispatch loops.  The handler is suspended only at its awaits:       *)
(* pc = "chat" (await service.chat(...)) and pc = "drain" (for await of    *)
(* the stream).  L is the record of the handler's locals.                  *)

Locals(a, ft, tcm, fr, succ, used, wr, resp, lg) ==
  [attempts |-> a, fullText |-> ft, toolCallMap |-> tcm, fragments |-> fr,
   success |-> succ, usedService |-> used, written |-> wr,
   response |-> resp, log |-> lg]

Current ==
  Locals(attempts, fullText, toolCallMap, fragments, success, usedService,
         written, response, log)

SetLocals(L) ==
  /\ attempts' = L.attempts
  /\ fullText' = L.fullText
  /\ toolCallMap' = L.toolCallMap
  /\ fragments' = L.fragments
  /\ success' = L.success
  /\ usedService' = L.usedService
  /\ written' = L.written
  /\ response' = L.response
  /\ log' = L.log

\* the log entry of a chat() invocation: the backend, the content and the
\* number of tool-call fragments and of deltas its stream has produced, and
\* how the invocation ended ("open" while it is awaited)
Invoked(svc) ==
  [svc |-> svc, out |-> NoText, tools |-> 0, deltas |-> 0, end |-> "open"]

\* the log once the stream of its last entry has yielded d
LoggedDelta(lg, d) ==
  [lg EXCEPT ![Len(lg)] = [@ EXCEPT !.out = @ \o d.content,
                                    !.tools = @ + Len(d.tool_calls),
                                    !.deltas = @ + 1]]

\* the log once its last entry has ended
LoggedEnd(lg, end) == [lg EXCEPT ![Len(lg)] = [@ EXCEPT !.end = end]]

\* the request is in the last-resort stage (OpenRouter is never rotated)
InLastResort == service = OpenRouter

\* the k-th backend of for (const service of rotationServices)
RotationService_Cyclic(k) == rotationServices[(k % N) + 1]

RotationService(k) == rotationServices[k]

\* rotationServices[currentServiceIndex]
CursorService == rotationServices[currentServiceIndex + 1]

\* currentServiceIndex = (currentServiceIndex + 1) % rotationServices.length
NextCursor_NoWrap(i) == i + 1

NextCursor(i) == (i + 1) % N

\* await svc.chat(messages, tools) is issued
Call_Uncounted(r, svc, L, cursor) ==
  /\ pc' = "chat"
  /\ service' = svc
  /\ currentServiceIndex' = cursor
  /\ SetLocals([L EXCEPT !.attempts = 0,
                         !.log = Append(@, Invoked(svc))])

Call(r, svc, L, cursor) ==
  /\ pc' = "chat"
  /\ service' = svc
  /\ currentServiceIndex' = cursor
  /\ SetLocals([L EXCEPT
       !.fullText = IF variant = "tools" /\ ~Streaming(r) THEN NoText ELSE @,
       !.toolCallMap = IF variant = "tools" /\ ~Streaming(r) THEN <<>> ELSE @,
       !.fragments = IF variant = "tools" /\ ~Streaming(r) THEN <<>> ELSE @,
       !.log = Append(@, Invoked(svc))])

\* the handler returns: the streaming branch ends the stream, the other
\* composes its JSON body
Finish(r, L) ==
  /\ pc' = "done"
  /\ UNCHANGED <<service, currentServiceIndex>>
  /\ SetLocals(
       IF Streaming(r)
       THEN [L EXCEPT !.written = WriteEnd(r, L.success, @)]
       ELSE [L EXCEPT !.response =
               Compose(r, L.success, L.fullText, L.toolCallMap)])

\* the handler answers at once
Answer(resp, lg) ==
  /\ pc' = "done"
  /\ UNCHANGED <<service, currentServiceIndex>>
  /\ SetLocals(Locals(0, NoText, <<>>, <<>>, FALSE, Null, <<>>, resp, lg))

\* if ((!success | !fullText) && lastResortService)
LastResortDue(r, L) ==
  /\ UsesLastResort
  /\ lastResortService # Null
  /\ IF variant = "placeholder" /\ ~Streaming(r)
     THEN L.fullText = NoText
     ELSE ~L.success

\* after the rotation loop
AfterRotation(r, L) ==
  IF LastResortDue(r, L)
  THEN Call(r, lastResortService, L, currentServiceIndex)
  ELSE Finish(r, L)

\* the head of the rotation loop after L.attempts attempts
Iterate_Hedged(r, L) ==
  IF L.attempts + 1 < N /\ ~CursorChat(r)
  THEN Call(r, RotationService(L.attempts + 2),
            [L EXCEPT !.attempts = @ + 2,
                      !.log = Append(@, Invoked(RotationService(
                                                  L.attempts + 1)))],
            currentServiceIndex)
  ELSE AfterRotation(r, L)

Iterate(r, L) ==
  IF L.attempts < N
  THEN IF CursorChat(r)
       THEN Call(r, CursorService, [L EXCEPT !.attempts = @ + 1],
                 NextCursor(currentServiceIndex))
       ELSE Call(r, RotationService(L.attempts + 1),
                 [L EXCEPT !.attempts = @ + 1], currentServiceIndex)
  ELSE AfterRotation(r, L)

\* catch (e) { console.error(...) } of the try around chat() and the loop
Caught_Rethrow(r, L) ==
  /\ pc' = "done"
  /\ UNCHANGED <<service, currentServiceIndex>>
  /\ SetLocals([L EXCEPT !.response = Uncaught("backend")])

Caught(r, L) ==
  IF InLastResort THEN Finish(r, L) ELSE Iterate(r, L)

\* the code after for await (...) when the stream ended without raising
Drained_Continue(r, L) ==
  IF InLastResort THEN Finish(r, [L EXCEPT !.success = TRUE])
  ELSE Iterate(r, [L EXCEPT !.success = TRUE])

Drained(r, L) ==
  IF Streaming(r) \/ variant \in {"cursor", "plain"}
  THEN Finish(r, [L EXCEPT !.success = TRUE])
  ELSE IF variant = "placeholder"
  THEN IF L.fullText # NoText
       THEN Finish(r, [L EXCEPT !.success = TRUE, !.usedService = service])
       ELSE IF InLastResort THEN Finish(r, L) ELSE Iterate(r, L)
  ELSE IF L.fullText # NoText \/ L.toolCallMap # <<>>
       THEN Finish(r, [L EXCEPT !.success = TRUE, !.usedService = service])
       ELSE Iterate(r, L)

\* the locals of a handler that starts its loops
Start(r) ==
  Locals(0, NoText, <<>>, <<>>, FALSE,
         IF variant = "cursor" THEN "" ELSE "none", <<>>,
         IF Streaming(r) THEN StreamResponse ELSE NoResponse, <<>>)

----------------------------------------------------------------------------
(* Actions *)

\* a request arrives: the middleware and the handler run up to the first
\* await of a backend, or to the response
Receive(route, stream, authHeader, xApiKey, bodyOk, raw, rawT) ==
  LET r0 == [route |-> route, stream |-> stream,
             apiKey |-> Presented(route, authHeader, xApiKey),
             bodyOk |-> bodyOk, nMessages |-> 0]
      msgs == IF Cleans(r0) THEN cleanMessages(raw) ELSE raw
      n == Len(msgs)
      r == [r0 EXCEPT !.nMessages = n]
  IN
  /\ pc = "idle"
  /\ req' = r
  /\ rawMessages' = raw
  /\ messages' = msgs
  /\ rawTools' = rawT
  /\ tools' = IF NormalizesTools(r) /\ bodyOk
                  /\ V1AuthPasses(authHeader, xApiKey)
               THEN normalizeTools(rawT) ELSE NoTools
  /\ budget' = MaxDeltas
  /\ UNCHANGED <<variant, env, tasks, clients, headers>>
  /\ IF route = "chat"
     THEN CASE variant = "cursor" ->
                 IF ~ChatAuthPasses(xApiKey)
                 THEN Answer(ErrorResponse(401, "Unauthorized: Invalid API Key"), <<>>)
                 ELSE IF ~bodyOk THEN Answer(Uncaught("json"), <<>>)
                 ELSE Iterate(r, Start(r))
            [] variant = "tools" ->
                 IF ~bodyOk THEN Answer(Uncaught("json"), <<>>)
                 ELSE Iterate(r, Start(r))
            [] OTHER ->
                 IF ~bodyOk THEN Answer(Uncaught("json"), <<>>)
                 ELSE IF ~ChatAuthPasses(xApiKey)
                 THEN Answer(ErrorResponse(401, "Unauthorized"), <<>>)
                 ELSE Iterate(r, Start(r))
     ELSE IF V1MiddlewareRuns(r) /\ ~V1AuthPasses(authHeader, xApiKey)
     THEN Answer(ErrorResponse(401, V1AuthError), <<>>)
     ELSE IF ~Registered(r)
     THEN Answer(ErrorResponse(404, "Not Found"), <<>>)
     ELSE IF ~bodyOk
     THEN Answer(IF GuardedParse(r) THEN ErrorResponse(400, "Invalid JSON")
                 ELSE Uncaught("json"), <<>>)
     ELSE IF ChecksEmpty(r) /\ n = 0
     THEN Answer(EmptyConversation(r), <<>>)
     ELSE Iterate(r, Start(r))

\* await service.chat(...) resolves to a stream
ChatReturns ==
  /\ pc = "chat"
  /\ pc' = "drain"
  /\ usedService' = IF variant = "cursor" /\ Streaming(req) THEN service
                    ELSE usedService
  /\ UNCHANGED <<variant, env, currentServiceIndex, req, rawMessages,
                 messages, attempts, service, fullText, toolCallMap,
                 fragments, success, written, response, log, budget,
                 rawTools, tools, tasks, clients, headers>>

\* await service.chat(...) rejects, or the stream raises while consumed
Raises ==
  /\ pc \in {"chat", "drain"}
  /\ Caught(req, [Current EXCEPT !.log = LoggedEnd(@, "raised")])
  /\ UNCHANGED <<variant, env, req, rawMessages, messages, budget,
                 rawTools, tools, tasks, clients, headers>>

\* the stream yields one element
Yields(d) ==
  /\ pc = "drain"
  /\ budget > 0
  /\ budget' = budget - 1
  /\ log' = LoggedDelta(log, d)
  /\ IF Streaming(req)
     THEN /\ written' = WriteDelta(req, service, d, written)
          /\ UNCHANGED <<fullText, toolCallMap, fragments>>
     ELSE /\ fullText' = fullText \o d.content
          /\ toolCallMap' = Reassemble(toolCallMap, d.tool_calls)
          /\ fragments' = fragments \o d.tool_calls
          /\ UNCHANGED written
  /\ UNCHANGED <<variant, env, currentServiceIndex, pc, req, rawMessages,
                 messages, attempts, service, success, usedService,
                 response, rawTools, tools, tasks, clients, headers>>

\* the stream ends
Ends ==
  /\ pc = "drain"
  /\ Drained(req, [Current EXCEPT !.log = LoggedEnd(@, "drained")])
  /\ UNCHANGED <<variant, env, req, rawMessages, messages, budget,
                 rawTools, tools, tasks, clients, headers>>

NoRequest ==
  [route |-> Null, stream |-> FALSE, apiKey |-> NoText, bodyOk |-> TRUE,
   nMessages |-> 0]

\* the response has been delivered; the handler's locals are gone
Close ==
  /\ pc = "done"
  /\ pc' = "idle"
  /\ req' = NoRequest
  /\ rawMessages' = <<>>
  /\ messages' = <<>>
  /\ rawTools' = NoTools
  /\ tools' = NoTools
  /\ service' = Null
  /\ budget' = 0
  /\ SetLocals(Locals(0, NoText, <<>>, <<>>, FALSE, Null, <<>>, NoResponse,
                      <<>>))
  /\ UNCHANGED <<variant, env, currentServiceIndex, tasks, clients,
                 headers>>

\* any request arrives (POST /chat has no stream flag)
Arrives ==
  /\ pc = "idle"
  /\ \E route \in Routes, stream \in BOOLEAN, authHeader \in AuthHeaders,
        xApiKey \in ApiKeyHeaders, bodyOk \in BOOLEAN,
        raw \in BodyMessages, rawT \in BodyTools :
       /\ route = "chat" => ~stream
       /\ ~bodyOk => raw = <<>> /\ rawT = NoTools
       /\ rawT # NoTools => variant = "tools" /\ route # "chat"
       /\ Receive(route, stream, authHeader, xApiKey, bodyOk, raw, rawT)

\* the awaited stream yields any element its backend may produce
Streams == \E d \in Deltas(service) : Yields(d)

Init ==
  /\ variant \in Variants
  /\ env \in [EnvNames -> BOOLEAN]
  /\ currentServiceIndex = 0
  /\ pc = "idle"
  /\ req = NoRequest
  /\ rawMessages = <<>>
  /\ messages = <<>>
  /\ attempts = 0
  /\ service = Null
  /\ fullText = NoText
  /\ toolCallMap = <<>>
  /\ fragments = <<>>
  /\ success = FALSE
  /\ usedService = Null
  /\ written = <<>>
  /\ response = NoResponse
  /\ log = <<>>
  /\ budget = 0
  /\ rawTools = NoTools
  /\ tools = NoTools
  /\ tasks = <<>>
  /\ clients = NoClients
  /\ headers = NoHeaders

Next ==
  \/ Arrives
  \/ ChatReturns
  \/ Raises
  \/ Streams
  \/ Ends
  \/ Close

Spec == Init /\ [][Next]_vars

----------------------------------------------------------------------------
(* The dispatch under the assumption that backends answer: the requests   *)
(* are those that reach the dispatch loops (no AUTH_SECRET to fail, a     *)
(* body with one message), and every backend call eventually drains or    *)
(* raises.                                                                 *)

LiveInit == Init /\ ~env.AUTH_SECRET

LiveArrives ==
  /\ pc = "idle"
  /\ \E route \in Routes, stream \in BOOLEAN, authHeader \in AuthHeaders,
        xApiKey \in ApiKeyHeaders :
       /\ route = "chat" => ~stream
       /\ Receive(route, stream, authHeader, xApiKey, TRUE,
                  <<Msg("user", Str(<<"hola">>), Null, Null, Null)>>,
                  NoTools)

LiveNext ==
  \/ LiveArrives
  \/ ChatReturns
  \/ Raises
  \/ Streams
  \/ Ends
  \/ Close

\* an awaited chat() resolves or rejects, and a stream that is consumed
\* ends or raises
LiveSpec ==
  /\ LiveInit
  /\ [][LiveNext]_vars
  /\ WF_vars(ChatReturns \/ Raises)
  /\ WF_vars(Ends \/ Raises)

----------------------------------------------------------------------------
(* Tool-call reassembly by itself: the body of the loop over               *)
(* delta.tool_calls, applied to any fragments a backend may stream.        *)

\* the pieces of a name and of its arguments a fragment may carry, as
\* providers split them: none, a name, a name and arguments, arguments
FunctionPieces ==
  { [name |-> NoText, arguments |-> NoText],
    [name |-> <<"get_">>, arguments |-> NoText],
    [name |-> <<"weather">>, arguments |-> <<"{">>],
    [name |-> NoText, arguments |-> <<"}">>] }

\* the fragments of a stream: with or without index and id
ToolCallFragments ==
  { [index |-> i, id |-> id, name |-> f.name, arguments |-> f.arguments] :
      i \in {NoIndex, 0, 1}, id \in {Null, "call_a", "call_b"},
      f \in FunctionPieces }

\* the next fragment of the stream is applied to toolCallMap
Reassembles ==
  /\ Len(fragments) < MaxFragments
  /\ \E tc \in ToolCallFragments :
       /\ toolCallMap' = SetToolCall(toolCallMap, tc)
       /\ fragments' = Append(fragments, tc)
  /\ UNCHANGED <<variant, env, currentServiceIndex, pc, req, rawMessages,
                 messages, attempts, service, fullText, success,
                 usedService, written, response, log, budget, rawTools,
                 tools, tasks, clients, headers>>

\* const toolCallMap = new Map<number, any>()
ReassemblyInit ==
  /\ Init
  /\ variant = "tools"
  /\ env = [v \in EnvNames |-> TRUE]

ReassemblyNext == Reassembles

ReassemblySpec == ReassemblyInit /\ [][ReassemblyNext]_vars

----------------------------------------------------------------------------
(* Message normalization by itself: cleanMessages applied to any body, and *)
(* applied again to the conversation it returned (a client sends back the  *)
(* conversation it was given).                                             *)

\* cleanMessages(rawMessages)
CleansBody ==
  /\ pc = "idle"
  /\ pc' = "cleaned"
  /\ messages' = cleanMessages(rawMessages)
  /\ UNCHANGED <<variant, env, currentServiceIndex, req, rawMessages,
                 attempts, service, fullText, toolCallMap, fragments,
                 success, usedService, written, response, log, budget,
                 rawTools, tools, tasks, clients, headers>>

\* cleanMessages applied to what it returned
CleansAgain ==
  /\ pc = "cleaned"
  /\ pc' = "recleaned"
  /\ rawMessages' = messages
  /\ messages' = cleanMessages(messages)
  /\ UNCHANGED <<variant, env, currentServiceIndex, req, attempts,
                 service, fullText, toolCallMap, fragments, success,
                 usedService, written, response, log, budget, rawTools,
                 tools, tasks, clients, headers>>

\* the revisions that have a cleanMessages, and any body
NormalizeInit ==
  /\ variant \in {"placeholder", "plain", "tools"}
  /\ env = [v \in EnvNames |-> TRUE]
  /\ rawMessages \in SeqsUpTo(RawMessagePool, MaxRawMessages)
  /\ currentServiceIndex = 0
  /\ pc = "idle"
  /\ req = NoRequest
  /\ messages = <<>>
  /\ attempts = 0
  /\ service = Null
  /\ fullText = NoText
  /\ toolCallMap = <<>>
  /\ fragments = <<>>
  /\ success = FALSE
  /\ usedService = Null
  /\ written = <<>>
  /\ response = NoResponse
  /\ log = <<>>
  /\ budget = 0
  /\ rawTools = NoTools
  /\ tools = NoTools
  /\ tasks = <<>>
  /\ clients = NoClients
  /\ headers = NoHeaders

NormalizeNext == CleansBody \/ CleansAgain

NormalizeSpec == NormalizeInit /\ [][NormalizeNext]_vars

----------------------------------------------------------------------------
(* Tool normalization by itself: normalizeTools applied to any tools a     *)
(* body may carry.                                                         *)

NormalizesBodyTools ==
  /\ pc = "idle"
  /\ pc' = "normalized"
  /\ tools' = normalizeTools(rawTools)
  /\ UNCHANGED <<variant, env, currentServiceIndex, req, rawMessages,
                 messages, rawTools, attempts, service, fullText,
                 toolCallMap, fragments, success, usedService, written,
                 response, log, budget, tasks, clients, headers>>

ToolsInit ==
  /\ variant = "tools"
  /\ env = [v \in EnvNames |-> TRUE]
  /\ rawTools \in RawTools
  /\ currentServiceIndex = 0
  /\ pc = "idle"
  /\ req = NoRequest
  /\ rawMessages = <<>>
  /\ messages = <<>>
  /\ tools = NoTools
  /\ attempts = 0
  /\ service = Null
  /\ fullText = NoText
  /\ toolCallMap = <<>>
  /\ fragments = <<>>
  /\ success = FALSE
  /\ usedService = Null
  /\ written = <<>>
  /\ response = NoResponse
  /\ log = <<>>
  /\ budget = 0
  /\ tasks = <<>>
  /\ clients = NoClients
  /\ headers = NoHeaders

ToolsNext == NormalizesBodyTools

ToolsSpec == ToolsInit /\ [][ToolsNext]_vars

----------------------------------------------------------------------------
(* Requests side by side.  Node runs one handler at a time and switches    *)
(* between handlers only at an await, so a step of a task is the code from *)
(* one await to the next.  The tasks are POST /chat requests that passed   *)
(* authentication; each has its own locals, all share currentServiceIndex *)
(* and the providers' client objects.  A task handles one request; a      *)
(* request that follows another is a task that starts after the other is  *)
(* done.                                                                    *)

IdleTask ==
  [pc |-> "idle", attempts |-> 0, service |-> Null, success |-> FALSE,
   log |-> <<>>]

\* if (!groq) { groq = new Groq(...) }: the number of client objects the
\* provider has constructed once chat() has run, from the number before
Constructed_Always(n) == n + 1

Constructed(n) == IF n = 0 THEN 1 ELSE n

\* the client objects once chat() of svc has run
ClientsAfter(svc) ==
  IF svc \in Providers THEN [clients EXCEPT ![svc] = Constructed(@)]
  ELSE clients

\* the while loop of the cursor revision from its head, at cursor i after a
\* attempts, up to the backend it calls: an empty slot is skipped and
\* counted as an attempt
RECURSIVE Rotate(_, _)
Rotate(i, a) ==
  IF a >= N THEN [svc |-> Null, cursor |-> i, attempts |-> a]
  ELSE IF i + 1 \in 1..N
  THEN [svc |-> rotationServices[i + 1], cursor |-> NextCursor(i),
        attempts |-> a + 1]
  ELSE Rotate(NextCursor(i), a + 1)

\* the backend the task calls next, with the cursor and the attempts then;
\* svc is Null when the handler is through
NextCall(T) ==
  IF T.service = OpenRouter \/ T.success
  THEN [svc |-> Null, cursor |-> currentServiceIndex, attempts |-> T.attempts]
  ELSE LET rot == IF variant = "cursor"
                  THEN Rotate(currentServiceIndex, T.attempts)
                  ELSE IF T.attempts < N
                  THEN [svc |-> RotationService(T.attempts + 1),
                        cursor |-> currentServiceIndex,
                        attempts |-> T.attempts + 1]
                  ELSE [svc |-> Null, cursor |-> currentServiceIndex,
                        attempts |-> T.attempts]
       IN IF rot.svc = Null /\ UsesLastResort /\ lastResortService # Null
          THEN [rot EXCEPT !.svc = lastResortService]
          ELSE rot

\* the task goes on from the head of its loop to its next await or its end
TaskIterate(t, T) ==
  LET c == NextCall(T) IN
  /\ currentServiceIndex' = c.cursor
  /\ IF c.svc = Null
     THEN /\ tasks' = [tasks EXCEPT ![t] =
                         [T EXCEPT !.pc = "done", !.attempts = c.attempts]]
          /\ UNCHANGED clients
     ELSE /\ tasks' = [tasks EXCEPT ![t] =
                         [T EXCEPT !.pc = "chat", !.attempts = c.attempts,
                                   !.service = c.svc,
                                   !.log = Append(@, [svc |-> c.svc,
                                                      end |-> "open"])]]
          /\ clients' = ClientsAfter(c.svc)

\* the task's log once its last entry has ended
TaskEnded(T, end) ==
  [T EXCEPT !.log = [@ EXCEPT ![Len(@)] = [@ EXCEPT !.end = end]]]

Untouched ==
  UNCHANGED <<variant, env, pc, req, rawMessages, messages, rawTools,
              tools, attempts, service, fullText, toolCallMap,
              fragments, success, usedService, written, response, log,
              budget, headers>>

\* a /chat request arrives and its handler runs to its first await
TaskStarts(t) ==
  /\ tasks[t].pc = "idle"
  /\ TaskIterate(t, IdleTask)
  /\ Untouched

\* await service.chat(messages) resolves to a stream
TaskChatReturns(t) ==
  /\ tasks[t].pc = "chat"
  /\ tasks' = [tasks EXCEPT ![t] = [@ EXCEPT !.pc = "drain"]]
  /\ UNCHANGED <<currentServiceIndex, clients>>
  /\ Untouched

\* chat() rejects or the stream raises: the catch block, then the loop
TaskRaises(t) ==
  /\ tasks[t].pc \in {"chat", "drain"}
  /\ TaskIterate(t, TaskEnded(tasks[t], "raised"))
  /\ Untouched

\* the stream ends: success = true, and the handler leaves its loops
TaskEnds(t) ==
  /\ tasks[t].pc = "drain"
  /\ TaskIterate(t, [TaskEnded(tasks[t], "drained") EXCEPT !.success = TRUE])
  /\ Untouched

\* any revision and any keys; the tasks have passed authentication, so
\* AUTH_SECRET plays no further part
ConcurrentInit ==
  /\ variant \in Variants
  /\ env \in [EnvNames -> BOOLEAN]
  /\ ~env.AUTH_SECRET
  /\ tasks = [t \in 1..MaxTasks |-> IdleTask]
  /\ clients = NoClients
  /\ headers = NoHeaders
  /\ currentServiceIndex = 0
  /\ pc = "idle"
  /\ req = NoRequest
  /\ rawMessages = <<>>
  /\ messages = <<>>
  /\ rawTools = NoTools
  /\ tools = NoTools
  /\ attempts = 0
  /\ service = Null
  /\ fullText = NoText
  /\ toolCallMap = <<>>
  /\ fragments = <<>>
  /\ success = FALSE
  /\ usedService = Null
  /\ written = <<>>
  /\ response = NoResponse
  /\ log = <<>>
  /\ budget = 0

ConcurrentNext ==
  \E t \in 1..MaxTasks :
    \/ TaskStarts(t)
    \/ TaskChatReturns(t)
    \/ TaskRaises(t)
    \/ TaskEnds(t)

ConcurrentSpec == ConcurrentInit /\ [][ConcurrentNext]_vars

----------------------------------------------------------------------------
(* The /v1/* authentication by itself: a request with any headers comes   *)
(* in on a /v1 route; the middleware, where it runs, answers 401 or calls *)
(* next().                                                                 *)

Authenticates(route) ==
  LET r == [route |-> route, stream |-> FALSE,
            apiKey |-> Presented(route, headers.authorization,
                                 headers.xApiKey),
            bodyOk |-> TRUE, nMessages |-> 0]
  IN
  /\ pc = "idle"
  /\ req' = r
  /\ IF V1MiddlewareRuns(r)
        /\ ~V1AuthPasses(headers.authorization, headers.xApiKey)
     THEN /\ pc' = "done"
          /\ response' = ErrorResponse(401, V1AuthError)
     ELSE /\ pc' = "passed"
          /\ UNCHANGED response
  /\ UNCHANGED <<variant, env, currentServiceIndex, rawMessages, messages,
                 rawTools, tools, attempts, service, fullText, toolCallMap,
                 fragments, success, usedService, written, log, budget,
                 tasks, clients, headers>>

AuthInit ==
  /\ variant \in Variants
  /\ env \in [EnvNames -> BOOLEAN]
  /\ headers \in [authorization : AuthHeaders, xApiKey : ApiKeyHeaders]
  /\ currentServiceIndex = 0
  /\ pc = "idle"
  /\ req = NoRequest
  /\ rawMessages = <<>>
  /\ messages = <<>>
  /\ rawTools = NoTools
  /\ tools = NoTools
  /\ attempts = 0
  /\ service = Null
  /\ fullText = NoText
  /\ toolCallMap = <<>>
  /\ fragments = <<>>
  /\ success = FALSE
  /\ usedService = Null
  /\ written = <<>>
  /\ response = NoResponse
  /\ log = <<>>
  /\ budget = 0
  /\ tasks = <<>>
  /\ clients = NoClients

AuthNext == \E route \in {"completions", "responses"} : Authenticates(route)

AuthSpec == AuthInit /\ [][AuthNext]_vars

----------------------------------------------------------------------------
(* What the claims speak of *)

\* a request went as far as invoking a backend
Dispatched == log # <<>>

\* a dispatched non-streaming request has been answered
AnsweredJson == pc = "done" /\ Dispatched /\ ~Streaming(req)

\* the text of the assistant message of a JSON answer, in either flavor
BodyText(resp) ==
  IF resp.object = "response"
  THEN IF resp.output[1].content = <<>> THEN NoText
       ELSE resp.output[1].content[1].text
  ELSE resp.content

\* the tool calls of a JSON answer, in either flavor
BodyToolCalls(resp) ==
  IF resp.object = "response" THEN resp.output[1].tool_calls
  ELSE resp.tool_calls

\* the invocation ended with nothing to show: it raised, or drained empty
Failed(e) ==
  e.end = "raised" \/ (e.end = "drained" /\ e.out = NoText /\ e.tools = 0)

\* the invocation drained and produced text or a tool call
Delivered(e) == e.end = "drained" /\ (e.out # NoText \/ e.tools > 0)

\* the invocations of rotation backends, in order
RotationLog == SelectSeq(log, LAMBDA e : e.svc # OpenRouter)

----------------------------------------------------------------------------
----------------------------------------------------------------------------
(* C2  Non-streaming: when exactly one invoked backend, the k-th of the    *)
(* rotation list, returns non-empty output and every other one raises or   *)
(* drains empty, the response is attributed to backend k, carries only its *)
(* output, and backends 1..k-1 were each invoked once before it.           *)
C2_AttributedToTheOne ==
  \A k \in 1..Len(log) :
     ( /\ AnsweredJson
       /\ log[k].svc # OpenRouter
       /\ Delivered(log[k])
       /\ \A j \in 1..Len(log) : j # k => Failed(log[j]) )
     => /\ k = Len(log)
        /\ \A i \in 1..k : log[i].svc = rotationServices[i]
        /\ success
        /\ response.status = 200
        /\ BodyToolCalls(response) # <<>> <=> log[k].tools > 0
        /\ BodyText(response) = log[k].out

----------------------------------------------------------------------------
(* C3  Non-streaming: a response is returned as a successful completion    *)
(* only if its text is non-empty or it has a tool call; a backend that     *)
(* drains with no text and no tool call is not taken as the result.        *)
C3_NoEmptySuccess ==
  AnsweredJson =>
    /\ response.status = 200
         => BodyText(response) # NoText \/ BodyToolCalls(response) # <<>>
    /\ success => ~Failed(log[Len(log)])

----------------------------------------------------------------------------
(* C4  Non-streaming: if every backend tried yields no output, whether by  *)
(* raising or by draining with nothing, the request ends in the one        *)
(* all-backends-failed outcome: HTTP 503 with an error body, or HTTP 200   *)
(* with the placeholder assistant message.                                 *)
AllBackendsFailed(resp) ==
  \/ resp.status = 503 /\ resp.error # Null
  \/ resp.status = 200 /\ resp.content = <<Apology>>

C4_AllFailedOutcome ==
  ( /\ AnsweredJson
    /\ \A i \in 1..Len(log) : log[i].out = NoText /\ log[i].tools = 0 )
  => AllBackendsFailed(response)

----------------------------------------------------------------------------
(* C5  Non-streaming: the text and the tool calls of the response come     *)
(* only from the backend the response is attributed to; what was consumed  *)
(* from a backend that raised or was passed over never appears in it.      *)
Tokens(t) == {t[i] : i \in 1..Len(t)}

ToolCallTokens(tcs) ==
  UNION {Tokens(tcs[i].function.name) \cup Tokens(tcs[i].function.arguments)
           : i \in 1..Len(tcs)}

C5_OneBackendOnly ==
  (AnsweredJson /\ response.status = 200) =>
    LET from == IF success THEN {log[Len(log)].svc} ELSE {}
    IN /\ Tokens(BodyText(response)) \subseteq from \cup {Apology}
       /\ ToolCallTokens(BodyToolCalls(response)) \subseteq from
       /\ success => BodyText(response) = log[Len(log)].out

----------------------------------------------------------------------------
(* C6  Streaming: once a frame from a backend has been written to the      *)
(* caller no other backend is invoked for the request, so every content    *)
(* frame of a streaming response comes from the backend invoked last.      *)
ContentFrames == SelectSeq(written, LAMBDA f : f.kind \in {"chunk", "raw"})

C6_NoRestartAfterFrames ==
  (Streaming(req) /\ Dispatched) =>
    \A i \in 1..Len(ContentFrames) :
       ContentFrames[i].from = log[Len(log)].svc

----------------------------------------------------------------------------
(* C7  Every streaming response of a /v1 route, whatever the backends did, *)
(* is one frame per delta received from the chosen backend, in order, then *)
(* a stop-sentinel frame, then the [DONE] frame as its last frame.         *)
RECURSIVE ContentOf(_)
ContentOf(frames) ==
  IF frames = <<>> THEN NoText
  ELSE Head(frames).content \o ContentOf(Tail(frames))

C7_FramesStopDone ==
  (pc = "done" /\ Dispatched /\ req.route # "chat" /\ req.stream) =>
    LET n == Len(written)
        chosen == log[Len(log)]
    IN /\ n >= 2
       /\ written[n] = DoneFrame
       /\ written[n - 1] = StopFrame
       /\ \A i \in 1..(n - 2) :
             written[i].kind = "chunk" /\ written[i].from = chosen.svc
       /\ chosen.end = "drained" =>
             /\ n - 2 = chosen.deltas
             /\ ContentOf(SubSeq(written, 1, n - 2)) = chosen.out

----------------------------------------------------------------------------
(* C8  The last-resort backend is invoked only after every backend of the  *)
(* rotation list has been tried and has failed; and when it is configured, *)
(* no request ends with every backend failed without it having been tried. *)
\* the invocation failed for its request: a stream that drains is a failure
\* only where the result is aggregated and it brought nothing
FailedFor(r, e) ==
  e.end = "raised" \/ (~Streaming(r) /\ Failed(e))

C8_LastResortLast ==
  /\ \A i \in 1..Len(log) :
        log[i].svc = OpenRouter =>
          /\ i = N + 1
          /\ \A j \in 1..N : log[j].svc # OpenRouter /\ FailedFor(req, log[j])
          /\ \A j \in 1..N : \E k \in 1..N : log[k].svc = rotationServices[j]
  /\ ( /\ pc = "done" /\ Dispatched
       /\ env.OPENROUTER_API_KEY
       /\ \A i \in 1..Len(log) : FailedFor(req, log[i]) )
     => \E i \in 1..Len(log) : log[i].svc = OpenRouter

----------------------------------------------------------------------------
(* C9  An exception a backend raises, at the call of chat() or while its   *)
(* stream is consumed, never leaves the request handler: no dispatched     *)
(* request is answered by the framework's error response, and the only     *)
(* failures a caller sees are those of a request all of whose backends     *)
(* failed (status 503, or the error line of /chat).                        *)
C9_BackendErrorsCaught ==
  /\ response.status # 500 \/ response.error = "json"
  /\ (pc = "done" /\ Dispatched) =>
       /\ response.status \in {200, 503}
       /\ response.error # Null => response.status = 503
       /\ (response.status = 503 \/ \E i \in 1..Len(written) : written[i] = ErrorFrame)
            => /\ ~success
               /\ Len(log) >= N
               /\ \A i \in 1..Len(log) : Failed(log[i])

\* one backend raised when called, the next one while its stream was
\* consumed, and the request ended with 503
C9_Witness ==
  /\ pc = "done"
  /\ Len(log) = 2
  /\ log[1].end = "raised" /\ log[1].deltas = 0
  /\ log[2].end = "raised" /\ log[2].out # NoText
  /\ response.status = 503

----------------------------------------------------------------------------
(* C10  With AUTH_SECRET set, a request to a /v1 route whose credential    *)
(* (bearer token or x-api-key) differs from the secret is answered 401     *)
(* with an error body and runs neither its handler nor a backend; with no  *)
(* secret set no request is answered 401.                                  *)
C10_V1Guarded ==
  req.route \in {"completions", "responses"} =>
    IF env.AUTH_SECRET
    THEN req.apiKey # authSecret =>
           /\ pc = "done"
           /\ response.status = 401 /\ response.error # Null
           /\ log = <<>>
    ELSE response.status # 401

----------------------------------------------------------------------------
(* C11  With AUTH_SECRET set, a POST /chat request (with a well-formed    *)
(* body) whose x-api-key header is not the secret is answered 401 and no   *)
(* backend is invoked for it.                                              *)
C11_ChatGuarded ==
  ( /\ req.route = "chat" /\ req.bodyOk
    /\ env.AUTH_SECRET /\ req.apiKey # authSecret ) =>
    /\ pc = "done"
    /\ response.status = 401
    /\ log = <<>>

----------------------------------------------------------------------------
(* C12  In every response that carries a usage block, total_tokens =       *)
(* prompt_tokens + completion_tokens exactly (a count the block leaves out *)
(* reads as 0).                                                            *)
C12_UsageAdds ==
  response.usage.fields # {} =>
    response.usage.total_tokens
      = response.usage.prompt_tokens + response.usage.completion_tokens

----------------------------------------------------------------------------
(* C13  In every non-streaming response composed after a dispatch,         *)
(* prompt_tokens = max(1, 10 * number of normalized messages) and          *)
(* completion_tokens = ceil(length of the response text / 4), or 50 when   *)
(* the result is a tool call.                                              *)
C13_UsageEstimate ==
  (AnsweredJson /\ response.status = 200 /\ response.usage.fields # {}) =>
    /\ response.usage.prompt_tokens = Max(1, 10 * req.nMessages)
    /\ response.usage.completion_tokens
         = IF BodyToolCalls(response) # <<>> THEN 50
           ELSE Ceil4(TextLen(BodyText(response)))

----------------------------------------------------------------------------
(* C14  In a non-streaming successful response the completion status tells *)
(* whether there are tool calls: classic flavor, finish_reason is          *)
(* "tool_calls" iff there is at least one tool call and "stop" otherwise;  *)
(* responses flavor, status is "requires_action" iff there is at least one *)
(* tool call and "completed" otherwise.                                    *)
C14_StatusTellsToolCalls ==
  (AnsweredJson /\ response.status = 200) =>
    IF response.object = "response"
    THEN response.state
           = IF toolCallMap # <<>> THEN "requires_action" ELSE "completed"
    ELSE response.finish_reason
           = IF toolCallMap # <<>> THEN "tool_calls" ELSE "stop"

----------------------------------------------------------------------------
(* C15  A non-streaming result of the responses flavor (a request to       *)
(* /v1/responses) has an output entry of type "message" whose content is   *)
(* an array of {type: "text", text}, empty when there is no text, and,     *)
(* when there are tool calls, carries them in a                            *)
(* required_action.submit_tool_outputs.tool_calls block.                   *)
C15_ResponsesShape ==
  (AnsweredJson /\ req.route = "responses" /\ response.status = 200) =>
    /\ response.object = "response"
    /\ Len(response.output) = 1
    /\ response.output[1].type = "message"
    /\ response.output[1].content
         = IF fullText = NoText THEN <<>>
           ELSE <<[type |-> "text", text |-> fullText]>>
    /\ toolCallMap # <<>> => response.required_action # Null

----------------------------------------------------------------------------
(* C16  Reassembly over any sequence of fragments: fragments are grouped   *)
(* by index; the name and the arguments of the tool call of an index are   *)
(* the concatenation, in arrival order, of the pieces of every fragment    *)
(* with that index; the tool calls are ordered by the first arrival of     *)
(* their index.                                                            *)

\* the index a fragment is grouped under (a fragment without one: 0)
GroupOf(tc) == IF tc.index = NoIndex THEN 0 ELSE tc.index

\* the indexes of the fragments, each once, in order of first arrival
RECURSIVE FirstSeen(_, _)
FirstSeen(frs, seen) ==
  IF frs = <<>> THEN <<>>
  ELSE IF GroupOf(Head(frs)) \in seen THEN FirstSeen(Tail(frs), seen)
  ELSE <<GroupOf(Head(frs))>>
         \o FirstSeen(Tail(frs), seen \cup {GroupOf(Head(frs))})

\* the pieces of the fragments of one index, concatenated in arrival order
RECURSIVE NamesOf(_, _)
NamesOf(frs, idx) ==
  IF frs = <<>> THEN <<>>
  ELSE (IF GroupOf(Head(frs)) = idx THEN Head(frs).name ELSE <<>>)
         \o NamesOf(Tail(frs), idx)

RECURSIVE ArgumentsOf(_, _)
ArgumentsOf(frs, idx) ==
  IF frs = <<>> THEN <<>>
  ELSE (IF GroupOf(Head(frs)) = idx THEN Head(frs).arguments ELSE <<>>)
         \o ArgumentsOf(Tail(frs), idx)

C16_Reassembly ==
  LET order == FirstSeen(fragments, {})
  IN /\ Len(toolCallMap) = Len(order)
     /\ \A i \in 1..Len(toolCallMap) :
          /\ toolCallMap[i].index = order[i]
          /\ toolCallMap[i].name = NamesOf(fragments, order[i])
          /\ toolCallMap[i].arguments = ArgumentsOf(fragments, order[i])
     /\ Len(toolCalls(toolCallMap)) = Len(order)
     /\ \A i \in 1..Len(order) :
          /\ toolCalls(toolCallMap)[i].function.name
               = NamesOf(fragments, order[i])
          /\ toolCalls(toolCallMap)[i].function.arguments
               = ArgumentsOf(fragments, order[i])

\* index 1 arrived first, then index 0, then index 1 again with the second
\* piece of its name and of its arguments
C16_Witness ==
  /\ Len(fragments) = 3
  /\ fragments[1].index = 1 /\ fragments[2].index = NoIndex
  /\ fragments[3].index = 1
  /\ Len(toolCallMap) = 2
  /\ toolCallMap[1].name = <<"get_", "weather">>
  /\ toolCallMap[1].arguments = <<"{">>
  /\ toolCallMap[2].arguments = <<"}">>
  /\ toolCallMap[2].index = 0

----------------------------------------------------------------------------
(* C17  In reassembly the id of the tool call of an index is the id of the *)
(* first fragment of that index that supplies one; an id of a later        *)
(* fragment of the index does not replace it.                              *)
RECURSIVE FirstIdOf(_, _)
FirstIdOf(frs, idx) ==
  IF frs = <<>> THEN Null
  ELSE IF GroupOf(Head(frs)) = idx /\ Head(frs).id # Null THEN Head(frs).id
  ELSE FirstIdOf(Tail(frs), idx)

C17_FirstIdKept ==
  \A i \in 1..Len(toolCallMap) :
     FirstIdOf(fragments, toolCallMap[i].index) # Null
       => toolCallMap[i].id = FirstIdOf(fragments, toolCallMap[i].index)

----------------------------------------------------------------------------
(* C18  After normalization the role of every message is one of user,      *)
(* assistant, system, tool: whatever the case of its letters, human and    *)
(* user give user; ai, assistant, model and chat give assistant; system    *)
(* gives system; tool gives tool; any other role, or none, gives user.     *)
CanonicalRoles == {"user", "assistant", "system", "tool"}

\* the role in lower case
Lower(role) == IF role = "Model" THEN "model" ELSE role

CanonRole(role) ==
  LET r == Lower(role)
  IN IF r \in {"ai", "assistant", "model", "chat"} THEN "assistant"
     ELSE IF r \in {"system", "tool"} THEN r
     ELSE "user"

C18_RolesCanonical ==
  pc = "cleaned" =>
    /\ \A i \in 1..Len(messages) : messages[i].role \in CanonicalRoles
    /\ Len(messages) = Len(rawMessages) =>
         \A i \in 1..Len(messages) :
            messages[i].role = CanonRole(rawMessages[i].role)

----------------------------------------------------------------------------
(* C19  Normalization drops a message if and only if its content is empty  *)
(* or whitespace-only and it has no tool_calls and its role is not tool    *)
(* (a tool message without content is kept); the messages kept stay in     *)
(* their order.                                                            *)
DropsBySpec(m) ==
  /\ IsBlank(cleanContent(m.content).text)
  /\ m.tool_calls = Null
  /\ m.role # "tool"

KeptBySpec(msgs) == SelectSeq(msgs, LAMBDA m : ~DropsBySpec(m))

C19_DropsOnlyBlank ==
  pc = "cleaned" =>
    /\ Len(messages) = Len(KeptBySpec(rawMessages))
    /\ \A i \in 1..Len(messages) :
          messages[i] = cleanMessage(KeptBySpec(rawMessages)[i])

----------------------------------------------------------------------------
----------------------------------------------------------------------------
\* normalizeTools has run on the tools of a body
Normalized == pc = "normalized"

\* the names the entry may resolve to: that of its function object, its own
ResolvableNames(t) == {FunctionName(t), t.name} \ {Null, ""}

\* the entry has a name normalizeTools can resolve
Resolvable(t) == ResolvableNames(t) # {}

\* the entry is in canonical form already
Canonical(t) == t.type = "function" /\ ~Falsy(FunctionName(t))

(* C21  normalizeTools returns undefined when its input is absent, not an *)
(* array or an empty array; otherwise every tool of its result has a      *)
(* non-empty function name, and the entries of the input without a        *)
(* resolvable name are not in the result: it has at most as many tools as *)
(* the input has entries with a resolvable name, each under the name of   *)
(* such an entry.                                                          *)
C21_ToolsNamed ==
  Normalized =>
    IF ~rawTools.isArray \/ rawTools.items = <<>>
    THEN tools = NoTools
    ELSE /\ tools.isArray
         /\ \A i \in 1..Len(tools.items) :
              /\ tools.items[i].function.present
              /\ tools.items[i].function.name \notin {Null, ""}
              /\ \E j \in 1..Len(rawTools.items) :
                   tools.items[i].function.name
                     \in ResolvableNames(rawTools.items[j])
         /\ Len(tools.items) <= Len(SelectSeq(rawTools.items, Resolvable))

\* an entry without a name was dropped and a flat one was kept
C21_Witness ==
  /\ Normalized
  /\ Len(rawTools.items) = 2
  /\ ~Resolvable(rawTools.items[1])
  /\ rawTools.items[2].name = "search"
  /\ Len(tools.items) = 1
  /\ tools.items[1].function.name = "search"

\* the canonical form of an entry with a resolvable name
CanonicalForm(t) ==
  Tool("function", Null, Null, Null, Null,
       Function(Or(t.name, FunctionName(t)),
                IF Falsy(t.description) THEN "" ELSE t.description,
                IF ~Falsy(t.parameters) THEN t.parameters
                ELSE IF ~Falsy(t.arguments) THEN t.arguments
                ELSE "{type: object, properties: {}}"))

(* C22  normalizeTools turns every entry with a resolvable name that is   *)
(* not canonical already into the canonical form, an absent description   *)
(* becoming '' and absent parameters the empty object schema, and drops   *)
(* no entry that has a resolvable name.                                   *)
C22_AllResolvableKept ==
  Normalized /\ rawTools.isArray /\ rawTools.items # <<>> =>
    LET named == SelectSeq(rawTools.items, Resolvable) IN
    /\ tools.isArray
    /\ Len(tools.items) = Len(named)
    /\ \A i \in 1..Len(named) :
         tools.items[i] = IF Canonical(named[i]) THEN named[i]
                          ELSE CanonicalForm(named[i])

----------------------------------------------------------------------------
\* the invocations of the request that are awaited
InFlight == {i \in 1..Len(log) : log[i].end = "open"}

(* C23  Within one request at most one backend call is in flight: an      *)
(* invocation is awaited only while the handler is suspended on it, it is *)
(* the latest one, and every invocation before it has drained or raised.  *)
C23_OneInFlight ==
  /\ Cardinality(InFlight) <= 1
  /\ \A i \in 1..Len(log) :
       i < Len(log) => log[i].end \in {"raised", "drained"}
  /\ InFlight # {} <=> pc \in {"chat", "drain"}

\* a third backend is awaited after one raised and one drained empty
C23_Witness ==
  /\ Len(log) = 3
  /\ log[1].end = "raised"
  /\ log[2].end = "drained"
  /\ log[3].end = "open"
  /\ pc = "drain"

----------------------------------------------------------------------------
\* the rotation backends a task has attempted, in order
TaskRotation(T) ==
  LET lg == SelectSeq(T.log, LAMBDA e : e.svc # OpenRouter)
  IN [i \in 1..Len(lg) |-> lg[i].svc]

\* the task went on to the last resort, or ended without a backend answering
TaskPastRotation(T) ==
  \/ \E i \in 1..Len(T.log) : T.log[i].svc = OpenRouter
  \/ T.pc = "done" /\ ~T.success

(* C24  Under any interleaving of requests handled side by side, no       *)
(* request attempts a rotation backend twice, and a request goes on to    *)
(* the last resort or to its failure outcome only after it has attempted  *)
(* every rotation backend.                                                *)
C24_FailoverUnaffected ==
  \A t \in 1..Len(tasks) :
    LET rot == TaskRotation(tasks[t]) IN
    /\ \A i, j \in 1..Len(rot) : rot[i] = rot[j] => i = j
    /\ TaskPastRotation(tasks[t]) =>
         \A k \in 1..N : \E i \in 1..Len(rot) : rot[i] = rotationServices[k]


\* the chat() invocations of the provider's backend that the tasks at hand
\* have made
CallsOf(p) ==
  {<<t, i>> \in (1..Len(tasks)) \X (1..(N + 1)) :
     i <= Len(tasks[t].log) /\ tasks[t].log[i].svc = p}

(* C25  Each provider's client object is constructed at most once per     *)
(* process, by the first chat() call that reaches the provider's backend, *)
(* and later calls, those of requests handled side by side included,      *)
(* reuse it: a backend that has been called has its one client, and a     *)
(* step constructs a client only for a backend that had none.             *)
C25_ClientOnce ==
  /\ [](\A p \in Providers :
          /\ clients[p] <= 1
          /\ CallsOf(p) # {} => clients[p] = 1)
  /\ [][\A p \in Providers :
          clients'[p] # clients[p] =>
            /\ clients[p] = 0
            /\ clients'[p] = 1
            /\ \E t \in 1..Len(tasks) :
                 /\ Len(tasks'[t].log) = Len(tasks[t].log) + 1
                 /\ tasks'[t].log[Len(tasks'[t].log)].svc = p]_vars

\* two requests side by side await the same backend, on its one client
C25_Witness ==
  /\ Len(tasks) >= 2
  /\ tasks[1].pc = "drain" /\ tasks[1].service = Groq
  /\ tasks[2].pc = "chat" /\ tasks[2].service = Groq
  /\ clients[Groq] = 1

(* C30  In the /chat handler of the cursor revision currentServiceIndex   *)
(* is an index of the rotation list (0..N-1) in every reachable state,    *)
(* under any interleaving of requests, and every rotation attempt, of any *)
(* request, advances it by exactly one modulo N; nothing else moves it.   *)
C30_CursorInRange ==
  /\ [](currentServiceIndex \in 0..(N - 1))
  /\ [][variant = "cursor" =>
          LET made == {t \in 1..Len(tasks) :
                         Len(TaskRotation(tasks'[t]))
                           = Len(TaskRotation(tasks[t])) + 1}
          IN IF made # {}
             THEN currentServiceIndex' = (currentServiceIndex + 1) % N
             ELSE currentServiceIndex' = currentServiceIndex]_vars

\* side by side, two requests have moved the cursor four times around a
\* list of three: it is back at 1
C30_Witness ==
  /\ variant = "cursor"
  /\ N = 3
  /\ Len(tasks) >= 2
  /\ Len(tasks[1].log) = 2
  /\ Len(tasks[2].log) = 2
  /\ tasks[1].pc = "chat" /\ tasks[2].pc = "drain"
  /\ currentServiceIndex = 1

----------------------------------------------------------------------------
\* the fixed priority order of the rotation backends
Priority == <<Groq, Cerebras, Gemini>>

\* the place of a rotation backend in the priority order
Rank(svc) == CHOOSE k \in 1..Len(Priority) : Priority[k] = svc

\* the credential of a rotation backend is present in the environment
KeyPresent(svc) ==
  IF svc = Groq THEN env.GROQ_API_KEY
  ELSE IF svc = Cerebras THEN env.CEREBRAS_API_KEY
  ELSE env.GEMINI_API_KEY

\* the rotation list is in priority order, without repetition
InPriorityOrder ==
  \A i, j \in 1..N :
    i < j => Rank(rotationServices[i]) < Rank(rotationServices[j])

\* the backends of the rotation list
Listed == {rotationServices[i] : i \in 1..N}

(* C26  The rotation list holds exactly the backends whose credential is  *)
(* present, in the order Groq, Cerebras, Gemini, and no request changes   *)
(* the list or the choice of the last resort.  (Original statement:       *)
(* violated when no credential is present, the list being [Groq] then.)   *)
C26_ExactlyThePresent ==
  /\ InPriorityOrder
  /\ \A svc \in Providers : svc \in Listed <=> KeyPresent(svc)

(* C26 as amended: when at least one of the three credentials is present  *)
(* the rotation list holds exactly the backends whose credential is       *)
(* present, in the order Groq, Cerebras, Gemini; when none is present it  *)
(* is the one-element list [Groq]; the last resort is OpenRouter exactly  *)
(* when its credential is present; and no step of any request changes the *)
(* list or the last resort.                                               *)
C26_PresentOrGroq ==
  /\ [](/\ InPriorityOrder
        /\ IF \E svc \in Providers : KeyPresent(svc)
           THEN \A svc \in Providers : svc \in Listed <=> KeyPresent(svc)
           ELSE rotationServices = <<Groq>>
        /\ lastResortService = OpenRouter <=> env.OPENROUTER_API_KEY
        /\ lastResortService = Null <=> ~env.OPENROUTER_API_KEY)
  /\ [][/\ rotationServices' = rotationServices
        /\ lastResortService' = lastResortService]_vars

\* without a Groq key a request went to Cerebras, then to Gemini, and the
\* handler is done
C26_Witness ==
  /\ ~env.GROQ_API_KEY
  /\ rotationServices = <<Cerebras, Gemini>>
  /\ pc = "done"
  /\ Len(log) >= 2
  /\ log[1].svc = Cerebras
  /\ log[2].svc = Gemini

----------------------------------------------------------------------------
\* the request is a POST to a /v1 route the revision serves, it was let in
\* by the authentication, and its body is not valid JSON
InvalidJsonBody ==
  /\ req.route \in {"completions", "responses"}
  /\ Registered(req)
  /\ ~req.bodyOk
  /\ response.status # 401

(* C27  A POST to /v1/chat/completions or /v1/responses whose body is not *)
(* valid JSON is answered with status 400 and the body                    *)
(* {error: "Invalid JSON"}; no backend is invoked for it and no exception *)
(* escapes the handler.                                                   *)
C27_InvalidJson400 ==
  pc = "done" /\ InvalidJsonBody =>
    /\ response.status = 400
    /\ response.error = "Invalid JSON"
    /\ log = <<>>

----------------------------------------------------------------------------
\* the invocation succeeded for the request: its stream drained without
\* raising and, unless the request is streamed, gave text or a tool call
Succeeded(r, e) ==
  /\ e.end = "drained"
  /\ Streaming(r) \/ e.out # NoText \/ e.tools > 0

(* C28  Once a backend has succeeded for a request, no later backend of   *)
(* the rotation list and no last resort is invoked for it: an invocation  *)
(* that succeeded is the last one of the request.                         *)
C28_NoCallAfterSuccess ==
  \A i \in 1..Len(log) : Succeeded(req, log[i]) => i = Len(log)

\* the second of three backends succeeded after the first raised, with a
\* last resort at hand, and the handler is done
C28_Witness ==
  /\ pc = "done"
  /\ N = 3
  /\ lastResortService # Null /\ UsesLastResort
  /\ Len(log) = 2
  /\ log[1].end = "raised"
  /\ Succeeded(req, log[2])

----------------------------------------------------------------------------
\* the invocations of the last resort
LastResortLog == SelectSeq(log, LAMBDA e : e.svc = OpenRouter)

\* the handler is suspended on a backend
Awaiting == pc \in {"chat", "drain"}

\* the handler has reached its terminal response
Terminal == pc = "done"

(* C29  Provided every backend call eventually drains or raises, every    *)
(* request reaches a terminal response, after at most N rotation attempts *)
(* and at most one attempt of the last resort, N being the length of the  *)
(* rotation list.                                                         *)
C29_Terminates ==
  /\ [](Len(RotationLog) <= N /\ Len(LastResortLog) <= 1)
  /\ Awaiting ~> Terminal

\* every rotation backend and the last resort were attempted and the
\* handler is done
C29_Witness ==
  /\ Terminal
  /\ N = 3
  /\ Len(RotationLog) = 3
  /\ Len(LastResortLog) = 1
  /\ Len(log) = 4

----------------------------------------------------------------------------
\* the request is a /v1 request that was let in, with a body that parsed,
\* and nothing of its conversation is left after normalization
EmptyNormalized ==
  /\ req.route \in {"completions", "responses"}
  /\ Cleans(req)
  /\ req.bodyOk
  /\ response.status # 401
  /\ messages = <<>>

\* the object of an answer in the flavor of the route
FlavorOf(r) ==
  IF r.route = "responses" THEN "response" ELSE "chat.completion"

(* C31  When the normalized conversation of a /v1 request is empty the    *)
(* handler answers 200 with a placeholder in the flavor requested         *)
(* (a response object on /v1/responses, a chat completion on              *)
(* /v1/chat/completions) and invokes no backend, whatever the stream      *)
(* flag.                                                                  *)
C31_EmptyPlaceholder ==
  pc = "done" /\ EmptyNormalized =>
    /\ response.status = 200
    /\ response.object = FlavorOf(req)
    /\ BodyText(response) # NoText
    /\ log = <<>>

----------------------------------------------------------------------------
\* the places of the [DONE] frames in what the request has written
DoneFrames == {i \in 1..Len(written) : written[i].kind = "done"}

(* C32  In a streaming response the [DONE] frame is written at most once  *)
(* and no frame is written after it, whatever the backends do, a stream   *)
(* that raises half-way and the failover after it included: in every      *)
(* state a [DONE] frame is the last frame written.                        *)
C32_DoneLast ==
  /\ Cardinality(DoneFrames) <= 1
  /\ \A i \in DoneFrames : i = Len(written)

\* a stream raised after a frame, the next backend drained after another,
\* and the response ended with [DONE]
C32_Witness ==
  /\ pc = "done"
  /\ Len(log) = 2
  /\ log[1].end = "raised" /\ log[1].deltas = 1
  /\ log[2].end = "drained" /\ log[2].deltas = 1
  /\ Len(written) >= 3
  /\ written[Len(written)].kind = "done"

----------------------------------------------------------------------------
\* the request has been through the authentication of its /v1 route, with
\* AUTH_SECRET set
Authenticated ==
  /\ pc \in {"passed", "done"}
  /\ req.route \in {"completions", "responses"}
  /\ env.AUTH_SECRET

\* the credential of the request: that of its Authorization header, less
\* the first "Bearer ", when the header is there, else that of x-api-key
CredentialOf(h) ==
  IF h.authorization # NoText THEN RemoveFirst(h.authorization, Bearer)
  ELSE h.xApiKey

(* C33  The /v1 authentication compares with the secret the credential of *)
(* the Authorization header whenever the header is present, and that of   *)
(* x-api-key only when it is absent: the request is answered 401 exactly  *)
(* when that credential is not the secret, so a wrong Authorization       *)
(* header is rejected even beside an x-api-key that is the secret.        *)
C33_AuthorizationFirst ==
  Authenticated =>
    (response.status = 401 <=> CredentialOf(headers) # <<Secret>>)

=============================================================================
